---- MODULE Spec2Model ----
(***************************************************************************)
(* Real-time chat layer of the FreeAPI backend: the JWT query-string       *)
(* middleware (chat/middleware.py), the WebSocket consumer                 *)
(* (chat/consumers.py) and the Chat / Participant / Message / User rows it *)
(* touches (chat/models.py, accounts/models.py), the REST views that make  *)
(* and change conversations and memberships (chat/views.py), and the       *)
(* last-seen text of a user (accounts/models.py).                          *)
(*                                                                         *)
(* Every await on the database or on the channel layer is a suspension     *)
(* point, so a handler is a chain of steps linked by the connection's pc.  *)
(* Handlers of one connection run one at a time (the consumer dispatches   *)
(* connect, receive, group messages and disconnect from one loop);         *)
(* handlers of different connections interleave. Two awaits are taken as   *)
(* one step only where no other handler can tell the difference.           *)
(*                                                                         *)
(* The channel layer is a FIFO queue per channel; group_send appends the   *)
(* message to the queue of every channel in the group.  `published` is the *)
(* log of group_send calls and a payload's field n is its place in that    *)
(* log; `everLast` is the set of messages last_message was ever set to.    *)
(* Both are history, read by the properties only.                          *)
(***************************************************************************)
EXTENDS Integers, Sequences, FiniteSets, TLC

\* ------------------------------------------------------------------ bounds
MaxAttempts == 2
MaxConnects == 2
MaxEvents == 2
MaxReads == 2
MaxCasts == 2
MaxTime == 1
MaxMarks == 2
MaxOthers == 2
MaxLive == 2
MaxCalls == 2
MaxStatus == 2
MaxAuth == 4
MaxPresence == 1
MaxClose == 2

\* ----------------------------------------- timedeltas of last seen, in s
Minute == 60
Hour == 3600
Day == 86400
TwoDays == 172800

\* ------------------------------------------------------------- identities
Users == {"u1", "u2", "u3"}
Inactive == {"u3"}
Conns == {"c1", "c2"}
None == "None"
GhostId == "ghost"
BadId == "bad"
NoMsg == 0
BadMsgId == -1
NoTime == -1
DefaultStatusMessage == "hey"
NoRefresh == 0
NoClients == [issued |-> {}, response |-> [view |-> None, status |-> 0, refresh |-> NoRefresh, access |-> FALSE]]
NoShown == [user |-> None, text |-> [text |-> "", n |-> -1, at |-> -1, on |-> -1]]

PeerIds == Users \cup {GhostId, BadId}
NoToken == [sig |-> None, ttl |-> 0, user_id |-> None]
GoodToken(u) == [sig |-> "good", ttl |-> 1, user_id |-> u]
Tokens == {NoToken, [sig |-> "bad", ttl |-> 1, user_id |-> "u1"], [sig |-> "good", ttl |-> 0, user_id |-> "u1"]} \cup {GoodToken(u) : u \in Users \cup {GhostId}}
Dials == {<<"u1", "u2">>, <<"u2", "u1">>, <<"u3", "u2">>}
SendInputs == {<<"", None>>, <<"hi", None>>, <<"", "f">>}
StatusTexts == {"", "busy"}
KnownTypes == {"message.send", "user.typing", "user.stop_typing", "message.read", "user.status"}
OtherTypes == {"message.delete", None}
Elapsed == {-1, 0, 30, 59, 60, 61, 119, 120, 600, 3599, 3600, 3601, 10800, 86399, 86400, 86401, 93600, 172799, 172800, 172801, 432000}
Nows == {432000, 475200, 518399}
Callers == Users \ Inactive
GroupNames == {"", "g"}
InviteLists == {<<>>, <<"u1">>, <<"u2">>, <<"u1", "u2">>, <<"u2", "u2">>, <<"u2", "u3">>, <<GhostId>>}

VARIABLES users, chats, participants, messages, everLast, conn, groups, inbox, received, published, now, shown, clients, nConnects, nEvents

vars == <<users, chats, participants, messages, everLast, conn, groups, inbox, received, published, now, shown, clients, nConnects, nEvents>>

db == <<users, chats, participants, messages, everLast>>
layer == <<groups, inbox, published>>

\* --------------------------------------------------------------- helpers
FreshConn == [st |-> "free", pc |-> "idle", token |-> NoToken, target |-> None, user |-> None, chat_id |-> 0, group_name |-> 0, code |-> 0, bound_at |-> 0, msg |-> NoMsg, ts |-> NoTime]

Group(x) == {c \in Conns : <<x, c>> \in groups}

IsMember(x, u) == \E p \in participants : p.chat = x /\ p.user = u

is_valid_uuid_lax(id) == id # None

is_valid_uuid(id) == id # BadId /\ id # None

\* ------------------------------------------------------------ middleware
jwt_decode(token) == IF token.sig = "good" /\ token.ttl > 0 THEN token.user_id ELSE None

get_user_from_token(token) == IF jwt_decode(token) \in Users THEN jwt_decode(token) ELSE None

JWTAuthMiddleware(token) == IF token # NoToken THEN get_user_from_token(token) ELSE None

\* ---------------------------------------------------------- channel layer
Payload(type, x, uid, mid, content, status, ts, flag) == [n |-> Len(published) + 1, type |-> type, chat_id |-> x, user_id |-> uid, message_id |-> mid, content |-> content, status |-> status, timestamp |-> ts, is_typing |-> flag]

ErrorPayload(text) == [n |-> 0, type |-> "error", chat_id |-> 0, user_id |-> None, message_id |-> NoMsg, content |-> text, status |-> None, timestamp |-> NoTime, is_typing |-> FALSE]

group_send_others(c, x, p) ==
    /\ inbox' = [d \in Conns |-> IF <<x, d>> \in groups /\ d # c THEN Append(inbox[d], p) ELSE inbox[d]]
    /\ published' = Append(published, [by |-> c, group |-> x, p |-> p])

group_send(c, x, p) ==
    /\ inbox' = [d \in Conns |-> IF <<x, d>> \in groups THEN Append(inbox[d], p) ELSE inbox[d]]
    /\ published' = Append(published, [by |-> c, group |-> x, p |-> p])

send_json(c, p) == received' = [received EXCEPT ![c] = Append(@, p)]

\* ------------------------------------------------------------------ Init
NoUsersOnline == [u \in Users |-> [is_active |-> u \notin Inactive, is_online |-> FALSE, last_seen |-> NoTime, status_message |-> DefaultStatusMessage, refresh_token |-> NoRefresh]]

PrivateChat == [chat_type |-> "private", last_message |-> NoMsg]

Membership(x, u) == [chat |-> x, user |-> u, role |-> "member"]

InitRuntime ==
    /\ users = NoUsersOnline
    /\ messages = <<>>
    /\ everLast = {}
    /\ conn = [c \in Conns |-> FreshConn]
    /\ groups = {}
    /\ inbox = [c \in Conns |-> <<>>]
    /\ received = [c \in Conns |-> <<>>]
    /\ published = <<>>
    /\ now = 0
    /\ shown = NoShown
    /\ clients = NoClients
    /\ nConnects = 0
    /\ nEvents = 0

\* an empty database
Init ==
    /\ chats = <<>>
    /\ participants = {}
    /\ InitRuntime

\* a database in which u1-u2 and u2-u3 have talked before
InitChat ==
    /\ chats = <<PrivateChat, PrivateChat>>
    /\ participants = {Membership(1, "u1"), Membership(1, "u2"), Membership(2, "u2"), Membership(2, "u3")}
    /\ InitRuntime

\* the same, and u1 has sent one message that nobody has read yet
InitRead ==
    /\ chats = <<[PrivateChat EXCEPT !.last_message = 1], PrivateChat>>
    /\ participants = {Membership(1, "u1"), Membership(1, "u2"), Membership(2, "u2"), Membership(2, "u3")}
    /\ users = NoUsersOnline
    /\ messages = <<[chat |-> 1, sender |-> "u1", content |-> "hi", attachment |-> None, message_type |-> "text", status |-> "sent", read_by |-> {}, read_at |-> NoTime, delivered_at |-> NoTime, created_at |-> 0]>>
    /\ everLast = {1}
    /\ conn = [c \in Conns |-> FreshConn]
    /\ groups = {}
    /\ inbox = [c \in Conns |-> <<>>]
    /\ received = [c \in Conns |-> <<>>]
    /\ published = <<>>
    /\ now = 0
    /\ shown = NoShown
    /\ clients = NoClients
    /\ nConnects = 0
    /\ nEvents = 0

\* ------------------------------------------------------------ connection
PrivateChatsOf(u1, u2) == {x \in 1..Len(chats) : chats[x].chat_type = "private" /\ IsMember(x, u1) /\ IsMember(x, u2)}

Bound(base, x) == [base EXCEPT !.chat_id = x, !.group_name = x, !.st = "open", !.pc = "set_online", !.bound_at = Len(published)]

Connect(c, token, target) ==
    /\ conn[c].st = "free"
    /\ nConnects' = nConnects + 1
    /\ LET user == JWTAuthMiddleware(token)
           scope == [FreshConn EXCEPT !.token = token, !.target = target]
           auth == [scope EXCEPT !.user = user]
       IN  IF user = None
           THEN /\ conn' = [conn EXCEPT ![c] = [scope EXCEPT !.st = "refused", !.code = 4001]]
                /\ UNCHANGED groups
           ELSE IF ~is_valid_uuid(target)
           THEN /\ conn' = [conn EXCEPT ![c] = [auth EXCEPT !.st = "refused", !.code = 4002]]
                /\ UNCHANGED groups
           ELSE IF PrivateChatsOf(user, target) # {}
           THEN \E x \in PrivateChatsOf(user, target) :
                    /\ conn' = [conn EXCEPT ![c] = Bound(auth, x)]
                    /\ groups' = groups \cup {<<x, c>>}
           ELSE /\ conn' = [conn EXCEPT ![c] = [auth EXCEPT !.st = "handshake", !.pc = "goc_create"]]
                /\ UNCHANGED groups
    /\ UNCHANGED <<db, inbox, received, published, now, shown, clients, nEvents>>

GocCreate_omits_caller(c) ==
    /\ conn[c].pc = "goc_create"
    /\ LET u1 == conn[c].user
           u2 == conn[c].target
           x == Len(chats) + 1
       IN  IF u1 = u2 \/ u2 \notin Users
           THEN /\ conn' = [conn EXCEPT ![c].st = "refused", ![c].pc = "idle", ![c].code = 4003]
                /\ UNCHANGED <<chats, participants, groups>>
           ELSE /\ chats' = Append(chats, PrivateChat)
                /\ participants' = participants \cup {Membership(x, u2)}
                /\ conn' = [conn EXCEPT ![c] = Bound(@, x)]
                /\ groups' = groups \cup {<<x, c>>}
    /\ UNCHANGED <<users, messages, everLast, inbox, received, published, now, shown, clients, nConnects, nEvents>>

GocCreate(c) ==
    /\ conn[c].pc = "goc_create"
    /\ LET u1 == conn[c].user
           u2 == conn[c].target
           x == Len(chats) + 1
       IN  IF u1 = u2 \/ u2 \notin Users
           THEN /\ conn' = [conn EXCEPT ![c].st = "refused", ![c].pc = "idle", ![c].code = 4003]
                /\ UNCHANGED <<chats, participants, groups>>
           ELSE /\ chats' = Append(chats, PrivateChat)
                /\ participants' = participants \cup {Membership(x, u1), Membership(x, u2)}
                /\ conn' = [conn EXCEPT ![c] = Bound(@, x)]
                /\ groups' = groups \cup {<<x, c>>}
    /\ UNCHANGED <<users, messages, everLast, inbox, received, published, now, shown, clients, nConnects, nEvents>>

set_user_status(user_id, online) == users' = [users EXCEPT ![user_id].is_online = online, ![user_id].last_seen = now]

StatusPayload_with_text(c, event_type) == Payload(event_type, conn[c].chat_id, conn[c].user, NoMsg, users[conn[c].user].status_message, None, now, FALSE)

StatusPayload(c, event_type) == Payload(event_type, conn[c].chat_id, conn[c].user, NoMsg, "", None, now, FALSE)

broadcast_status(c, event_type) ==
    IF conn[c].group_name = 0
    THEN UNCHANGED <<inbox, published>>
    ELSE group_send(c, conn[c].group_name, StatusPayload(c, event_type))

SetOnline(c) ==
    /\ conn[c].pc = "set_online"
    /\ set_user_status(conn[c].user, TRUE)
    /\ conn' = [conn EXCEPT ![c].pc = "pub_online"]
    /\ UNCHANGED <<chats, participants, messages, everLast, layer, received, now, shown, clients, nConnects, nEvents>>

PubOnline(c) ==
    /\ conn[c].pc = "pub_online"
    /\ broadcast_status(c, "user.online")
    /\ conn' = [conn EXCEPT ![c].pc = "idle"]
    /\ UNCHANGED <<db, groups, received, now, shown, clients, nConnects, nEvents>>

\* --------------------------------------------------------- disconnection
Disconnect_keeps_group(c) ==
    /\ conn[c].st \in {"open", "refused"}
    /\ conn[c].pc = "idle"
    /\ inbox' = [inbox EXCEPT ![c] = <<>>]
    /\ IF conn[c].user # None THEN set_user_status(conn[c].user, FALSE) ELSE UNCHANGED users
    /\ IF conn[c].user # None /\ conn[c].group_name # 0
       THEN /\ conn' = [conn EXCEPT ![c].st = "closing", ![c].pc = "pub_offline"]
            /\ UNCHANGED received
       ELSE /\ conn' = [conn EXCEPT ![c] = FreshConn]
            /\ received' = [received EXCEPT ![c] = <<>>]
    /\ UNCHANGED <<chats, participants, messages, everLast, groups, published, now, shown, clients, nConnects, nEvents>>

Disconnect(c) ==
    /\ conn[c].st \in {"open", "refused"}
    /\ conn[c].pc = "idle"
    /\ groups' = IF conn[c].group_name # 0 THEN groups \ {<<conn[c].group_name, c>>} ELSE groups
    /\ inbox' = [inbox EXCEPT ![c] = <<>>]
    /\ IF conn[c].user # None THEN set_user_status(conn[c].user, FALSE) ELSE UNCHANGED users
    /\ IF conn[c].user # None /\ conn[c].group_name # 0
       THEN /\ conn' = [conn EXCEPT ![c].st = "closing", ![c].pc = "pub_offline"]
            /\ UNCHANGED received
       ELSE /\ conn' = [conn EXCEPT ![c] = FreshConn]
            /\ received' = [received EXCEPT ![c] = <<>>]
    /\ UNCHANGED <<chats, participants, messages, everLast, published, now, shown, clients, nConnects, nEvents>>

PubOffline(c) ==
    /\ conn[c].pc = "pub_offline"
    /\ broadcast_status(c, "user.offline")
    /\ conn' = [conn EXCEPT ![c] = FreshConn]
    /\ received' = [received EXCEPT ![c] = <<>>]
    /\ UNCHANGED <<db, groups, now, shown, clients, nConnects, nEvents>>

\* --------------------------------------------------------- inbound events
Idle(c) == conn[c].st = "open" /\ conn[c].pc = "idle"

NewMessage(c, text, attachment) == [chat |-> conn[c].chat_id, sender |-> conn[c].user, content |-> text, attachment |-> attachment, message_type |-> IF text # "" THEN "text" ELSE "file", status |-> "sent", read_by |-> {}, read_at |-> NoTime, delivered_at |-> NoTime, created_at |-> now]

RecvSend_broadcasts_error(c, text, attachment, dbok) ==
    /\ Idle(c)
    /\ nEvents' = nEvents + 1
    /\ IF dbok
       THEN /\ messages' = Append(messages, NewMessage(c, text, attachment))
            /\ conn' = [conn EXCEPT ![c].pc = "send_ptr", ![c].msg = Len(messages) + 1]
            /\ UNCHANGED <<inbox, published>>
       ELSE /\ group_send(c, conn[c].group_name, ErrorPayload("Message could not be sent."))
            /\ UNCHANGED <<messages, conn>>
    /\ UNCHANGED <<users, chats, participants, everLast, groups, received, now, shown, clients, nConnects>>

RecvSend(c, text, attachment, dbok) ==
    /\ Idle(c)
    /\ nEvents' = nEvents + 1
    /\ IF dbok
       THEN /\ messages' = Append(messages, NewMessage(c, text, attachment))
            /\ conn' = [conn EXCEPT ![c].pc = "send_ptr", ![c].msg = Len(messages) + 1]
            /\ UNCHANGED received
       ELSE /\ send_json(c, ErrorPayload("Message could not be sent."))
            /\ UNCHANGED <<messages, conn>>
    /\ UNCHANGED <<users, chats, participants, everLast, layer, now, shown, clients, nConnects>>

SendPtrSkipped(c) ==
    /\ conn[c].pc = "send_ptr"
    /\ conn' = [conn EXCEPT ![c].pc = "send_pub"]
    /\ UNCHANGED <<db, layer, received, now, shown, clients, nConnects, nEvents>>

SendPtr(c) ==
    /\ conn[c].pc = "send_ptr"
    /\ chats' = [chats EXCEPT ![conn[c].chat_id].last_message = conn[c].msg]
    /\ everLast' = everLast \cup {conn[c].msg}
    /\ conn' = [conn EXCEPT ![c].pc = "send_pub"]
    /\ UNCHANGED <<users, participants, messages, layer, received, now, shown, clients, nConnects, nEvents>>

build_message_payload(c) == Payload("message.receive", conn[c].chat_id, conn[c].user, conn[c].msg, messages[conn[c].msg].content, "sent", messages[conn[c].msg].created_at, FALSE)

SendPub(c) ==
    /\ conn[c].pc = "send_pub"
    /\ group_send(c, conn[c].group_name, build_message_payload(c))
    /\ conn' = [conn EXCEPT ![c].pc = "idle", ![c].msg = NoMsg]
    /\ UNCHANGED <<db, groups, received, now, shown, clients, nConnects, nEvents>>

mark_as_delivered(m) == [m EXCEPT !.status = "delivered", !.delivered_at = now]

\* Message.mark_as_delivered has no caller in the consumer or the views; it
\* is an operation of the model that any of them may apply to a stored row.
MarkAsDelivered(message_id) ==
    /\ message_id \in 1..Len(messages)
    /\ nEvents' = nEvents + 1
    /\ messages' = [messages EXCEPT ![message_id] = mark_as_delivered(@)]
    /\ UNCHANGED <<users, chats, participants, everLast, conn, layer, received, now, shown, clients, nConnects>>

MessageIds == (1..Len(messages)) \cup {NoMsg, BadMsgId}

mark_as_read(m, user) == [m EXCEPT !.read_by = @ \cup {user}, !.status = "read", !.read_at = now]

RecvRead_closes_on_error(c, message_id) ==
    /\ Idle(c)
    /\ nEvents' = nEvents + 1
    /\ IF message_id \in 1..Len(messages)
       THEN /\ messages' = [messages EXCEPT ![message_id] = mark_as_read(@, conn[c].user)]
            /\ conn' = [conn EXCEPT ![c].pc = "read_pub", ![c].msg = message_id, ![c].ts = now]
            /\ UNCHANGED received
       ELSE IF message_id = BadMsgId
       THEN /\ send_json(c, ErrorPayload("Internal error while processing your request."))
            /\ conn' = [conn EXCEPT ![c].st = "refused"]
            /\ UNCHANGED messages
       ELSE UNCHANGED <<messages, conn, received>>
    /\ UNCHANGED <<users, chats, participants, everLast, layer, now, shown, clients, nConnects>>

RecvRead(c, message_id) ==
    /\ Idle(c)
    /\ nEvents' = nEvents + 1
    /\ IF message_id \in 1..Len(messages)
       THEN /\ messages' = [messages EXCEPT ![message_id] = mark_as_read(@, conn[c].user)]
            /\ conn' = [conn EXCEPT ![c].pc = "read_pub", ![c].msg = message_id, ![c].ts = now]
            /\ UNCHANGED received
       ELSE IF message_id = BadMsgId
       THEN /\ send_json(c, ErrorPayload("Internal error while processing your request."))
            /\ UNCHANGED <<messages, conn>>
       ELSE UNCHANGED <<messages, conn, received>>
    /\ UNCHANGED <<users, chats, participants, everLast, layer, now, shown, clients, nConnects>>

ReadPub(c) ==
    /\ conn[c].pc = "read_pub"
    /\ group_send(c, conn[c].group_name, Payload("message.read", conn[c].chat_id, conn[c].user, conn[c].msg, "", None, conn[c].ts, FALSE))
    /\ conn' = [conn EXCEPT ![c].pc = "idle", ![c].msg = NoMsg, ![c].ts = NoTime]
    /\ UNCHANGED <<db, groups, received, now, shown, clients, nConnects, nEvents>>

broadcast_typing(c, is_typing) == group_send(c, conn[c].group_name, Payload("user.typing", conn[c].chat_id, conn[c].user, NoMsg, "", None, NoTime, is_typing))

RecvTyping(c, is_typing) ==
    /\ Idle(c)
    /\ nEvents' = nEvents + 1
    /\ broadcast_typing(c, is_typing)
    /\ UNCHANGED <<db, conn, groups, received, now, shown, clients, nConnects>>

update_status_message(user_id, message) == users' = [users EXCEPT ![user_id].status_message = message]

RecvStatus(c, status_message) ==
    /\ Idle(c)
    /\ nEvents' = nEvents + 1
    /\ update_status_message(conn[c].user, status_message)
    /\ conn' = [conn EXCEPT ![c].pc = "status_pub"]
    /\ UNCHANGED <<chats, participants, messages, everLast, layer, received, now, shown, clients, nConnects>>

StatusPub(c) ==
    /\ conn[c].pc = "status_pub"
    /\ broadcast_status(c, "user.status.update")
    /\ conn' = [conn EXCEPT ![c].pc = "idle"]
    /\ UNCHANGED <<db, groups, received, now, shown, clients, nConnects, nEvents>>

\* ------------------------------------------- close during a handler
\* The client closes its socket while a handler of its connection is between
\* two awaits. The consumer dispatches one message at a time, so the
\* websocket.disconnect waits in the connection's queue until the handler
\* has returned; nothing can be sent to the client any more.
ClientClose(c) ==
    /\ conn[c].st = "open"
    /\ conn[c].pc \in {"send_ptr", "send_pub", "read_pub"}
    /\ conn' = [conn EXCEPT ![c].st = "gone"]
    /\ UNCHANGED <<db, layer, received, now, shown, clients, nConnects, nEvents>>

DisconnectQueued_cancels(c) ==
    /\ conn[c].st = "gone"
    /\ groups' = groups \ {<<conn[c].group_name, c>>}
    /\ inbox' = [inbox EXCEPT ![c] = <<>>]
    /\ set_user_status(conn[c].user, FALSE)
    /\ conn' = [conn EXCEPT ![c].st = "closing", ![c].pc = "pub_offline"]
    /\ UNCHANGED <<chats, participants, messages, everLast, received, published, now, shown, clients, nConnects, nEvents>>

DisconnectQueued(c) ==
    /\ conn[c].st = "gone"
    /\ conn[c].pc = "idle"
    /\ groups' = groups \ {<<conn[c].group_name, c>>}
    /\ inbox' = [inbox EXCEPT ![c] = <<>>]
    /\ set_user_status(conn[c].user, FALSE)
    /\ conn' = [conn EXCEPT ![c].st = "closing", ![c].pc = "pub_offline"]
    /\ UNCHANGED <<chats, participants, messages, everLast, received, published, now, shown, clients, nConnects, nEvents>>

\* a group message dispatched before the queued disconnect: send_json on the
\* closed socket reaches nobody
chat_message_closed(c) ==
    /\ conn[c].st = "gone"
    /\ conn[c].pc = "idle"
    /\ inbox[c] # <<>>
    /\ inbox' = [inbox EXCEPT ![c] = Tail(@)]
    /\ UNCHANGED <<db, conn, groups, received, published, now, shown, clients, nConnects, nEvents>>

\* ------------------------------------------------ failing presence writes
\* The database raises inside set_user_status or update_status_message: the
\* exception is caught and logged there, nothing is written, and the caller
\* goes on to its next statement.
SetOnlineFailed_aborts(c) ==
    /\ conn[c].pc = "set_online"
    /\ send_json(c, ErrorPayload("Internal error while processing your request."))
    /\ conn' = [conn EXCEPT ![c].pc = "idle"]
    /\ UNCHANGED <<db, layer, now, shown, clients, nConnects, nEvents>>

SetOnlineFailed(c) ==
    /\ conn[c].pc = "set_online"
    /\ conn' = [conn EXCEPT ![c].pc = "pub_online"]
    /\ UNCHANGED <<db, layer, received, now, shown, clients, nConnects, nEvents>>

DisconnectFailed(c) ==
    /\ conn[c].st \in {"open", "refused"}
    /\ conn[c].pc = "idle"
    /\ conn[c].user # None
    /\ groups' = IF conn[c].group_name # 0 THEN groups \ {<<conn[c].group_name, c>>} ELSE groups
    /\ inbox' = [inbox EXCEPT ![c] = <<>>]
    /\ IF conn[c].group_name # 0
       THEN /\ conn' = [conn EXCEPT ![c].st = "closing", ![c].pc = "pub_offline"]
            /\ UNCHANGED received
       ELSE /\ conn' = [conn EXCEPT ![c] = FreshConn]
            /\ received' = [received EXCEPT ![c] = <<>>]
    /\ UNCHANGED <<db, published, now, shown, clients, nConnects, nEvents>>

RecvStatusFailed(c, status_message) ==
    /\ Idle(c)
    /\ nEvents' = nEvents + 1
    /\ conn' = [conn EXCEPT ![c].pc = "status_pub"]
    /\ UNCHANGED <<db, layer, received, now, shown, clients, nConnects>>

RecvOther_answers_error(c, event_type) ==
    /\ Idle(c)
    /\ event_type \notin KnownTypes
    /\ nEvents' = nEvents + 1
    /\ send_json(c, ErrorPayload("Internal error while processing your request."))
    /\ UNCHANGED <<db, conn, layer, now, shown, clients, nConnects>>

RecvOther(c, event_type) ==
    /\ Idle(c)
    /\ event_type \notin KnownTypes
    /\ nEvents' = nEvents + 1
    /\ UNCHANGED <<db, conn, layer, received, now, shown, clients, nConnects>>

\* ----------------------------------------------------- group fan-out leg
chat_message_drops(c) ==
    /\ conn[c].st = "open"
    /\ conn[c].pc = "idle"
    /\ inbox[c] # <<>>
    /\ inbox' = [inbox EXCEPT ![c] = Tail(@)]
    /\ UNCHANGED <<db, conn, groups, received, published, now, shown, clients, nConnects, nEvents>>

chat_message_newest_first(c) ==
    /\ conn[c].st = "open"
    /\ conn[c].pc = "idle"
    /\ inbox[c] # <<>>
    /\ send_json(c, inbox[c][Len(inbox[c])])
    /\ inbox' = [inbox EXCEPT ![c] = SubSeq(@, 1, Len(@) - 1)]
    /\ UNCHANGED <<db, conn, groups, published, now, shown, clients, nConnects, nEvents>>

chat_message_twice(c) ==
    /\ conn[c].st = "open"
    /\ conn[c].pc = "idle"
    /\ inbox[c] # <<>>
    /\ received' = [received EXCEPT ![c] = @ \o <<Head(inbox[c]), Head(inbox[c])>>]
    /\ inbox' = [inbox EXCEPT ![c] = Tail(@)]
    /\ UNCHANGED <<db, conn, groups, published, now, shown, clients, nConnects, nEvents>>

chat_message(c) ==
    /\ conn[c].st = "open"
    /\ conn[c].pc = "idle"
    /\ inbox[c] # <<>>
    /\ send_json(c, Head(inbox[c]))
    /\ inbox' = [inbox EXCEPT ![c] = Tail(@)]
    /\ UNCHANGED <<db, conn, groups, published, now, shown, clients, nConnects, nEvents>>

\* ------------------------------------------------------------- REST views
\* Each view runs in one transaction (@transaction.atomic): an exception
\* rolls all of it back.
GroupChat == [chat_type |-> "group", last_message |-> NoMsg]

Range(seq) == {seq[i] : i \in 1..Len(seq)}

get_or_create_inserts(rows, x, u) == rows \cup {Membership(x, u)}

get_or_create(rows, x, u) == IF \E p \in rows : p.chat = x /\ p.user = u THEN rows ELSE rows \cup {Membership(x, u)}

\* the loop of create_group_chat; same_type says whether an id of the request
\* body and request.user.id compare as values (an id of the body is a str,
\* which never equals a UUID object)
RECURSIVE AddInvitees(_, _, _, _, _)
AddInvitees(rows, x, creator, user_ids, same_type) ==
    IF user_ids = <<>>
    THEN rows
    ELSE AddInvitees(IF ~same_type \/ Head(user_ids) # creator THEN get_or_create(rows, x, Head(user_ids)) ELSE rows, x, creator, Tail(user_ids), same_type)

CreateGroupChat(creator, name, user_ids, same_type) ==
    /\ nEvents' = nEvents + 1
    /\ IF name = "" \/ ~(Range(user_ids) \subseteq Users)
       THEN UNCHANGED <<chats, participants>>
       ELSE /\ chats' = Append(chats, GroupChat)
            /\ participants' = AddInvitees(participants \cup {[chat |-> Len(chats) + 1, user |-> creator, role |-> "admin"]}, Len(chats) + 1, creator, user_ids, same_type)
    /\ UNCHANGED <<users, messages, everLast, conn, layer, received, now, shown, clients, nConnects>>

CreatePrivateChat(user, target_id) ==
    /\ nEvents' = nEvents + 1
    /\ IF target_id \notin Users \ Inactive \/ PrivateChatsOf(user, target_id) # {} \/ user = target_id
       THEN UNCHANGED <<chats, participants>>
       ELSE /\ chats' = Append(chats, PrivateChat)
            /\ participants' = participants \cup {Membership(Len(chats) + 1, user), Membership(Len(chats) + 1, target_id)}
    /\ UNCHANGED <<users, messages, everLast, conn, layer, received, now, shown, clients, nConnects>>

AddParticipant_creates(pk, user_id) ==
    /\ nEvents' = nEvents + 1
    /\ IF pk \in 1..Len(chats) /\ chats[pk].chat_type = "group" /\ user_id \in Users
       THEN participants' = participants \cup {Membership(pk, user_id)}
       ELSE UNCHANGED participants
    /\ UNCHANGED <<users, chats, messages, everLast, conn, layer, received, now, shown, clients, nConnects>>

AddParticipant(pk, user_id) ==
    /\ nEvents' = nEvents + 1
    /\ IF pk \in 1..Len(chats) /\ chats[pk].chat_type = "group" /\ user_id \in Users
       THEN participants' = get_or_create(participants, pk, user_id)
       ELSE UNCHANGED participants
    /\ UNCHANGED <<users, chats, messages, everLast, conn, layer, received, now, shown, clients, nConnects>>

RemoveParticipant(pk, user_id) ==
    /\ nEvents' = nEvents + 1
    /\ IF pk \in 1..Len(chats) /\ chats[pk].chat_type = "group"
       THEN participants' = {p \in participants : ~(p.chat = pk /\ p.user = user_id)}
       ELSE UNCHANGED participants
    /\ UNCHANGED <<users, chats, messages, everLast, conn, layer, received, now, shown, clients, nConnects>>

LeaveGroup(pk, user) ==
    /\ nEvents' = nEvents + 1
    /\ IF pk \in 1..Len(chats) /\ chats[pk].chat_type = "group"
       THEN participants' = {p \in participants : ~(p.chat = pk /\ p.user = user)}
       ELSE UNCHANGED participants
    /\ UNCHANGED <<users, chats, messages, everLast, conn, layer, received, now, shown, clients, nConnects>>

\* ------------------------------------------------------------ accounts API
\* `clients` is what the API's clients hold: the refresh tokens that logins
\* have handed out, each with its user and whether that user has logged out
\* since, and the last response.
Response(view, status_code, refresh, access) == [view |-> view, status |-> status_code, refresh |-> refresh, access |-> access]

\* RefreshToken.for_user: a token with a jti of its own
generate_jwt_tokens(user) == nEvents + 1

LoginView(user) ==
    /\ nEvents' = nEvents + 1
    /\ users' = [users EXCEPT ![user].refresh_token = generate_jwt_tokens(user)]
    /\ clients' = [issued |-> clients.issued \cup {[token |-> generate_jwt_tokens(user), user |-> user, logged_out |-> FALSE]}, response |-> Response("login", 200, generate_jwt_tokens(user), TRUE)]
    /\ UNCHANGED <<chats, participants, messages, everLast, conn, layer, received, now, shown, nConnects>>

LogoutView_keeps_token(user) ==
    /\ \E i \in clients.issued : i.user = user
    /\ nEvents' = nEvents + 1
    /\ clients' = [issued |-> {[i EXCEPT !.logged_out = @ \/ i.user = user] : i \in clients.issued}, response |-> Response("logout", 200, NoRefresh, FALSE)]
    /\ UNCHANGED <<db, conn, layer, received, now, shown, nConnects>>

\* the caller is authenticated by an access token of an earlier login
LogoutView(user) ==
    /\ \E i \in clients.issued : i.user = user
    /\ nEvents' = nEvents + 1
    /\ users' = [users EXCEPT ![user].refresh_token = NoRefresh]
    /\ clients' = [issued |-> {[i EXCEPT !.logged_out = @ \/ i.user = user] : i \in clients.issued}, response |-> Response("logout", 200, NoRefresh, FALSE)]
    /\ UNCHANGED <<chats, participants, messages, everLast, conn, layer, received, now, shown, nConnects>>

\* unexpired says whether RefreshToken(refresh_token) verifies or raises
\* TokenError
RefreshTokenView(refresh_token, unexpired) ==
    /\ nEvents' = nEvents + 1
    /\ clients' = [clients EXCEPT !.response =
            IF ~\E u \in Users : users[u].refresh_token = refresh_token /\ users[u].is_active
            THEN Response("refresh", 401, refresh_token, FALSE)
            ELSE IF unexpired
            THEN Response("refresh", 200, refresh_token, TRUE)
            ELSE Response("refresh", 401, refresh_token, FALSE)]
    /\ UNCHANGED <<db, conn, layer, received, now, shown, nConnects>>

\* --------------------------------------------------------------- last seen
\* strftime('%I:%M %p') shows the minute of the day, '%b %d, %Y' the day
strftime_time(t) == (t % Day) \div Minute

strftime_date(t) == t \div Day

\* timedelta.seconds: the seconds of a timedelta without its days
timedelta_seconds(delta) == delta % Day

Text(text, n, at, on) == [text |-> text, n |-> n, at |-> at, on |-> on]

formatted_last_seen_inclusive(last_seen, t) ==
    IF last_seen = NoTime
    THEN Text("last seen recently", -1, -1, -1)
    ELSE IF t - last_seen <= Minute
    THEN Text("online just now", -1, -1, -1)
    ELSE IF t - last_seen < Hour
    THEN Text("last seen N minutes ago", timedelta_seconds(t - last_seen) \div 60, -1, -1)
    ELSE IF t - last_seen < 24 * Hour
    THEN Text("last seen today at", -1, strftime_time(last_seen), -1)
    ELSE IF t - last_seen < TwoDays
    THEN Text("last seen yesterday at", -1, strftime_time(last_seen), -1)
    ELSE Text("last seen on", -1, strftime_time(last_seen), strftime_date(last_seen))

formatted_last_seen(last_seen, t) ==
    IF last_seen = NoTime
    THEN Text("last seen recently", -1, -1, -1)
    ELSE IF t - last_seen < Minute
    THEN Text("online just now", -1, -1, -1)
    ELSE IF t - last_seen < Hour
    THEN Text("last seen N minutes ago", timedelta_seconds(t - last_seen) \div 60, -1, -1)
    ELSE IF t - last_seen < 24 * Hour
    THEN Text("last seen today at", -1, strftime_time(last_seen), -1)
    ELSE IF t - last_seen < TwoDays
    THEN Text("last seen yesterday at", -1, strftime_time(last_seen), -1)
    ELSE Text("last seen on", -1, strftime_time(last_seen), strftime_date(last_seen))

FormatLastSeen(u) ==
    /\ shown' = [user |-> u, text |-> formatted_last_seen(users[u].last_seen, now)]
    /\ UNCHANGED <<db, conn, layer, received, now, clients, nConnects, nEvents>>

Tick ==
    /\ now < MaxTime
    /\ now' = now + 1
    /\ UNCHANGED <<db, conn, layer, received, shown, clients, nConnects, nEvents>>

\* -------------------------------------------------------- specifications
\* Connection attempts with every kind of token and peer id, on an empty
\* database.
NextConnect ==
    \/ \E c \in Conns, token \in Tokens, target \in PeerIds : nConnects < MaxAttempts /\ Connect(c, token, target)
    \/ \E c \in Conns : GocCreate(c)
    \/ \E c \in Conns : SetOnline(c)
    \/ \E c \in Conns : PubOnline(c)
    \/ \E c \in Conns : Disconnect(c)
    \/ \E c \in Conns : PubOffline(c)
    \/ \E c \in Conns : chat_message(c)

SpecConnect == Init /\ [][NextConnect]_vars

\* Sessions of users who have talked before: messages and read receipts.
Next ==
    \/ \E c \in Conns, d \in Dials : nConnects < MaxConnects /\ Connect(c, GoodToken(d[1]), d[2])
    \/ \E c \in Conns : SetOnline(c)
    \/ \E c \in Conns : PubOnline(c)
    \/ \E c \in Conns, in \in SendInputs, dbok \in BOOLEAN : nEvents < MaxEvents /\ RecvSend(c, in[1], in[2], dbok)
    \/ \E c \in Conns : SendPtr(c)
    \/ \E c \in Conns : SendPub(c)
    \/ \E c \in Conns, message_id \in MessageIds : nEvents < MaxEvents /\ RecvRead(c, message_id)
    \/ \E c \in Conns : ReadPub(c)

Spec == InitChat /\ [][Next]_vars

\* Sessions of users who have talked before: read receipts for a message
\* that is already there, with the clock running.
NextRead ==
    \/ \E c \in Conns, d \in Dials : nConnects < MaxConnects /\ Connect(c, GoodToken(d[1]), d[2])
    \/ \E c \in Conns : SetOnline(c)
    \/ \E c \in Conns : PubOnline(c)
    \/ \E c \in Conns, message_id \in MessageIds : nEvents < MaxReads /\ RecvRead(c, message_id)
    \/ \E c \in Conns : ReadPub(c)
    \/ Tick

SpecRead == InitRead /\ [][NextRead]_vars

\* The same sessions, with the delivery mark of the Message model applied
\* to the stored message as well.
NextStatus ==
    \/ \E c \in Conns, d \in Dials : nConnects < MaxConnects /\ Connect(c, GoodToken(d[1]), d[2])
    \/ \E c \in Conns : SetOnline(c)
    \/ \E c \in Conns : PubOnline(c)
    \/ \E c \in Conns, message_id \in MessageIds : nEvents < MaxMarks /\ RecvRead(c, message_id)
    \/ \E c \in Conns : ReadPub(c)
    \/ \E message_id \in 1..Len(messages) : nEvents < MaxMarks /\ MarkAsDelivered(message_id)
    \/ Tick

SpecStatus == InitRead /\ [][NextStatus]_vars

\* Sessions of users who have talked before: the fan-out of what they
\* publish, across disconnects and reconnects.
NextFanout ==
    \/ \E c \in Conns, d \in Dials : nConnects < MaxConnects /\ Connect(c, GoodToken(d[1]), d[2])
    \/ \E c \in Conns : SetOnline(c)
    \/ \E c \in Conns : PubOnline(c)
    \/ \E c \in Conns : Disconnect(c)
    \/ \E c \in Conns : PubOffline(c)
    \/ \E c \in Conns, is_typing \in BOOLEAN : nEvents < MaxCasts /\ RecvTyping(c, is_typing)
    \/ \E c \in Conns : chat_message(c)

SpecFanout == InitChat /\ [][NextFanout]_vars

\* Sessions of users who have talked before, whose clients send events
\* with a type tag the consumer does not know, or with none.
NextOther ==
    \/ \E c \in Conns, d \in Dials : nConnects < MaxConnects /\ Connect(c, GoodToken(d[1]), d[2])
    \/ \E c \in Conns : SetOnline(c)
    \/ \E c \in Conns : PubOnline(c)
    \/ \E c \in Conns, event_type \in OtherTypes : nEvents < MaxOthers /\ RecvOther(c, event_type)
    \/ \E c \in Conns : chat_message(c)

SpecOther == InitChat /\ [][NextOther]_vars

\* Conversations and memberships made and changed through the REST views
\* and through connecting, from an empty database.
NextRest ==
    \/ \E c \in Conns, d \in Dials : nConnects < MaxConnects /\ Connect(c, GoodToken(d[1]), d[2])
    \/ \E c \in Conns : GocCreate(c)
    \/ \E user \in Callers, target_id \in PeerIds : nEvents < MaxCalls /\ CreatePrivateChat(user, target_id)
    \/ \E creator \in Callers, name \in GroupNames, user_ids \in InviteLists, same_type \in BOOLEAN : nEvents < MaxCalls /\ CreateGroupChat(creator, name, user_ids, same_type)
    \/ \E pk \in 1..Len(chats), user_id \in PeerIds : nEvents < MaxCalls /\ AddParticipant(pk, user_id)
    \/ \E pk \in 1..Len(chats), user_id \in PeerIds : nEvents < MaxCalls /\ RemoveParticipant(pk, user_id)
    \/ \E pk \in 1..Len(chats), user \in Callers : nEvents < MaxCalls /\ LeaveGroup(pk, user)

SpecRest == Init /\ [][NextRest]_vars

\* Sessions of users who have talked before and set their status text,
\* with the clock running.
NextUserStatus ==
    \/ \E c \in Conns, d \in Dials : nConnects < MaxConnects /\ Connect(c, GoodToken(d[1]), d[2])
    \/ \E c \in Conns : SetOnline(c)
    \/ \E c \in Conns : PubOnline(c)
    \/ \E c \in Conns, status_message \in StatusTexts : nEvents < MaxStatus /\ RecvStatus(c, status_message)
    \/ \E c \in Conns : StatusPub(c)
    \/ Tick

SpecUserStatus == InitChat /\ [][NextUserStatus]_vars

\* Connection lifecycles and status updates in which every presence write
\* either succeeds or raises in the database.
NextPresence ==
    \/ \E c \in Conns, d \in Dials : nConnects < MaxConnects /\ Connect(c, GoodToken(d[1]), d[2])
    \/ \E c \in Conns : SetOnline(c)
    \/ \E c \in Conns : SetOnlineFailed(c)
    \/ \E c \in Conns : PubOnline(c)
    \/ \E c \in Conns, status_message \in StatusTexts : nEvents < MaxPresence /\ RecvStatus(c, status_message)
    \/ \E c \in Conns, status_message \in StatusTexts : nEvents < MaxPresence /\ RecvStatusFailed(c, status_message)
    \/ \E c \in Conns : StatusPub(c)
    \/ \E c \in Conns : Disconnect(c)
    \/ \E c \in Conns : DisconnectFailed(c)
    \/ \E c \in Conns : PubOffline(c)
    \/ \E c \in Conns : chat_message(c)

SpecPresence == InitChat /\ [][NextPresence]_vars

\* Logins, logouts and refresh requests of the accounts API.
NextAuth ==
    \/ \E user \in Callers : nEvents < MaxAuth /\ LoginView(user)
    \/ \E user \in Callers : nEvents < MaxAuth /\ LogoutView(user)
    \/ \E refresh_token \in 1..MaxAuth, unexpired \in BOOLEAN : nEvents < MaxAuth /\ RefreshTokenView(refresh_token, unexpired)

SpecAuth == Init /\ [][NextAuth]_vars

\* formatted_last_seen at some time of day, for a user seen some time ago
\* (u1), a user never seen (u2) and a user seen just now (u3).
InitLastSeen ==
    /\ chats = <<>>
    /\ participants = {}
    /\ messages = <<>>
    /\ everLast = {}
    /\ conn = [c \in Conns |-> FreshConn]
    /\ groups = {}
    /\ inbox = [c \in Conns |-> <<>>]
    /\ received = [c \in Conns |-> <<>>]
    /\ published = <<>>
    /\ now \in Nows
    /\ \E d \in Elapsed : users = [NoUsersOnline EXCEPT !["u1"].last_seen = now - d, !["u3"].last_seen = now]
    /\ shown = NoShown
    /\ clients = NoClients
    /\ nConnects = 0
    /\ nEvents = 0

NextLastSeen == \E u \in Users : FormatLastSeen(u)

SpecLastSeen == InitLastSeen /\ [][NextLastSeen]_vars

\* u1 and u2 are both connected to their conversation, c1 on /chat/u2 first
\* and c2 on /chat/u1 after it, and have been told that the other is online.
OnlinePayload(n, u) == [n |-> n, type |-> "user.online", chat_id |-> 1, user_id |-> u, message_id |-> NoMsg, content |-> "", status |-> None, timestamp |-> 0, is_typing |-> FALSE]

InitLive ==
    /\ chats = <<PrivateChat, PrivateChat>>
    /\ participants = {Membership(1, "u1"), Membership(1, "u2"), Membership(2, "u2"), Membership(2, "u3")}
    /\ users = [NoUsersOnline EXCEPT !["u1"].is_online = TRUE, !["u1"].last_seen = 0, !["u2"].is_online = TRUE, !["u2"].last_seen = 0]
    /\ messages = <<>>
    /\ everLast = {}
    /\ conn = [c \in Conns |-> IF c = "c1"
                               THEN [FreshConn EXCEPT !.st = "open", !.token = GoodToken("u1"), !.target = "u2", !.user = "u1", !.chat_id = 1, !.group_name = 1]
                               ELSE [FreshConn EXCEPT !.st = "open", !.token = GoodToken("u2"), !.target = "u1", !.user = "u2", !.chat_id = 1, !.group_name = 1, !.bound_at = 1]]
    /\ groups = {<<1, "c1">>, <<1, "c2">>}
    /\ inbox = [c \in Conns |-> <<>>]
    /\ received = [c \in Conns |-> IF c = "c1" THEN <<OnlinePayload(1, "u1"), OnlinePayload(2, "u2")>> ELSE <<OnlinePayload(2, "u2")>>]
    /\ published = <<[by |-> "c1", group |-> 1, p |-> OnlinePayload(1, "u1")], [by |-> "c2", group |-> 1, p |-> OnlinePayload(2, "u2")]>>
    /\ now = 0
    /\ shown = NoShown
    /\ clients = NoClients
    /\ nConnects = 2
    /\ nEvents = 0

\* Two users who stay connected to their conversation: messages, read
\* receipts and their delivery.  Every await of a running handler completes
\* and the consumer's loop takes every queued channel message, so the steps
\* that follow an inbound event are weakly fair.
NextLive ==
    \/ \E c \in Conns, dbok \in BOOLEAN : nEvents < MaxLive /\ RecvSend(c, "hi", None, dbok)
    \/ \E c \in Conns : SendPtr(c)
    \/ \E c \in Conns : SendPub(c)
    \/ \E c \in Conns, message_id \in MessageIds : nEvents < MaxLive /\ RecvRead(c, message_id)
    \/ \E c \in Conns : ReadPub(c)
    \/ \E c \in Conns : chat_message(c)

FairLive == \A c \in Conns : WF_vars(SendPtr(c)) /\ WF_vars(SendPub(c)) /\ WF_vars(ReadPub(c)) /\ WF_vars(chat_message(c))

SpecLive == InitLive /\ [][NextLive]_vars /\ FairLive

\* Two users in their conversation; either may close its socket while its
\* send or read handler is in flight.
NextClose ==
    \/ \E c \in Conns, dbok \in BOOLEAN : nEvents < MaxClose /\ RecvSend(c, "hi", None, dbok)
    \/ \E c \in Conns : SendPtr(c)
    \/ \E c \in Conns : SendPub(c)
    \/ \E c \in Conns, message_id \in MessageIds : nEvents < MaxClose /\ RecvRead(c, message_id)
    \/ \E c \in Conns : ReadPub(c)
    \/ \E c \in Conns : ClientClose(c)
    \/ \E c \in Conns : DisconnectQueued(c)
    \/ \E c \in Conns : PubOffline(c)
    \/ \E c \in Conns : chat_message(c)
    \/ \E c \in Conns : chat_message_closed(c)

\* an awaited database call or publish returns and the event loop resumes
\* the handler
FairClose == \A c \in Conns : WF_vars(SendPtr(c)) /\ WF_vars(SendPub(c)) /\ WF_vars(ReadPub(c))

SpecClose == InitLive /\ [][NextClose]_vars /\ FairClose

\* ------------------------------------------------------------ properties
\* what the specification asks of a token: present, signed with the secret,
\* unexpired when presented, and naming an existing user
Credible(token) == token # NoToken /\ token.sig = "good" /\ token.ttl > 0 /\ token.user_id \in Users

InGroup(c) == \E x \in 1..Len(chats) : <<x, c>> \in groups

\* C1: when two connections race get_or_create_private_chat(A,B) and
\* get_or_create_private_chat(B,A) for a pair without a private chat, both
\* end up with the id of one and the same chat, the only private chat of
\* the pair.
C1_RaceYieldsOneChat ==
    \A c, d \in Conns :
        (c # d /\ conn[c].chat_id # 0 /\ conn[d].chat_id # 0 /\ conn[c].user # conn[c].target /\ conn[c].user = conn[d].target /\ conn[c].target = conn[d].user)
            => (conn[c].chat_id = conn[d].chat_id /\ Cardinality(PrivateChatsOf(conn[c].user, conn[c].target)) = 1)

\* C2: a connection is accepted and bound to a group only if its token is
\* present, validly signed, unexpired and names an existing, active user.
C2_AcceptedOnlyActiveIdentity ==
    \A c \in Conns : (conn[c].st = "open" \/ InGroup(c)) => (Credible(conn[c].token) /\ users[conn[c].token.user_id].is_active)

\* C3: a connection attempt ends closed with 4001 when the scope has no
\* authenticated user, else with 4002 when the peer id is no UUID, else with
\* 4003 when no chat id was obtained, else accepted; a refused attempt is in
\* no group and is not accepted.
C3_OutcomeInOrder ==
    \A c \in Conns :
        /\ conn[c].st = "refused" =>
            /\ conn[c].code \in {4001, 4002, 4003}
            /\ ~InGroup(c) /\ conn[c].group_name = 0
            /\ conn[c].code = 4001 <=> ~Credible(conn[c].token)
            /\ conn[c].code = 4002 <=> (Credible(conn[c].token) /\ conn[c].target = BadId)
            /\ conn[c].code = 4003 <=> (Credible(conn[c].token) /\ conn[c].target # BadId /\ conn[c].chat_id = 0)
        /\ conn[c].st \in {"open", "closing"} =>
            /\ conn[c].code = 0
            /\ Credible(conn[c].token) /\ conn[c].target # BadId /\ conn[c].chat_id # 0
        /\ conn[c].st = "handshake" => (conn[c].code = 0 /\ ~InGroup(c) /\ Credible(conn[c].token) /\ conn[c].target # BadId)
        /\ conn[c].st = "free" => ~InGroup(c)

\* one attempt was refused for want of a conversation while another was accepted
C3_Witness == \E c, d \in Conns : conn[c].st = "refused" /\ conn[c].code = 4003 /\ conn[d].st = "open" /\ conn[d].pc = "idle"

IsEmptySend(m) == m.content = "" /\ m.attachment = None

\* C4: a message.send with empty text and no attachment persists no Message
\* row, moves no last_message pointer and publishes nothing.
C4_EmptySendPersistsNothing ==
    /\ \A i \in 1..Len(messages) : ~IsEmptySend(messages[i])
    /\ \A x \in 1..Len(chats) : chats[x].last_message # NoMsg => ~IsEmptySend(messages[chats[x].last_message])
    /\ \A n \in 1..Len(published) : ~(published[n].p.type = "message.receive" /\ published[n].p.content = "" /\ messages[published[n].p.message_id].attachment = None)

PersistedFor(c, m) == m \in 1..Len(messages) /\ messages[m].chat = conn[c].chat_id /\ messages[m].sender = conn[c].user /\ m \in everLast

\* C5 as claimed: whenever a message.receive payload is about to be
\* published, its Message is persisted in the publisher's conversation with
\* status "sent" and the publisher as sender, and last_message has been
\* written to it.
C5_SentAtPublish ==
    \A c \in Conns : conn[c].pc = "send_pub" => (PersistedFor(c, conn[c].msg) /\ messages[conn[c].msg].status = "sent")

\* C5 as amended: whenever a message.receive payload is about to be
\* published or has been published, its Message is persisted in the
\* publisher's conversation with the publisher as sender, last_message has
\* been written to it, and its status is "sent" unless a read receipt
\* handled since the insert has moved it to "read".
C5_PersistedBeforePublish ==
    /\ \A c \in Conns : conn[c].pc = "send_pub" =>
            /\ PersistedFor(c, conn[c].msg)
            /\ messages[conn[c].msg].status = "sent" \/ (messages[conn[c].msg].status = "read" /\ messages[conn[c].msg].read_by # {})
    /\ \A n \in 1..Len(published) : published[n].p.type = "message.receive" =>
            /\ published[n].p.message_id \in 1..Len(messages)
            /\ published[n].p.message_id \in everLast
            /\ messages[published[n].p.message_id].chat = published[n].group
            /\ messages[published[n].p.message_id].sender = published[n].p.user_id
            /\ published[n].p.status = "sent"

\* a message that a peer has read between its insert and its publish
C5_Witness == \E c \in Conns : conn[c].pc = "send_pub" /\ messages[conn[c].msg].status = "read" /\ chats[conn[c].chat_id].last_message = conn[c].msg

\* what the channel layer has handed or will hand to a connection, in order
Log(c) == received[c] \o inbox[c]

PubIndex(p) == CHOOSE n \in 1..Len(published) : published[n].p = p

\* C6: every payload published for a conversation while a connection is
\* bound to its group reaches that connection's channel, the publisher's
\* own connection included.
C6_DeliveredToAllBound ==
    \A d \in Conns : conn[d].st = "open" =>
        \A n \in (conn[d].bound_at + 1)..Len(published) :
            published[n].group = conn[d].group_name => \E i \in 1..Len(Log(d)) : Log(d)[i] = published[n].p

\* a typing event that both its publisher and the peer have received
C6_Witness ==
    \E c, d \in Conns : \E n \in 1..Len(published) :
        /\ c # d /\ published[n].by = c /\ published[n].p.type = "user.typing"
        /\ \E i \in 1..Len(received[c]) : received[c][i] = published[n].p
        /\ \E i \in 1..Len(received[d]) : received[d][i] = published[n].p

\* C7: a connection receives the payloads published for its conversation
\* in the order in which they were published.
C7_InPublishOrder ==
    \A d \in Conns : \A i, j \in 1..Len(Log(d)) :
        (i < j /\ Log(d)[i].type # "error" /\ Log(d)[j].type # "error") => PubIndex(Log(d)[i]) < PubIndex(Log(d)[j])

\* a connection has received two payloads that two different connections published
C7_Witness ==
    \E d \in Conns : \E i, j \in 1..Len(received[d]) :
        i < j /\ published[PubIndex(received[d][i])].by # published[PubIndex(received[d][j])].by

\* C8: a connection gets each published payload at most once, and none
\* that was published before it was bound.
C8_AtMostOnceNoReplay ==
    \A d \in Conns :
        /\ \A i, j \in 1..Len(Log(d)) : i # j => Log(d)[i] # Log(d)[j]
        /\ \A i \in 1..Len(Log(d)) : Log(d)[i].type # "error" => PubIndex(Log(d)[i]) > conn[d].bound_at

\* a connection that published to its group, left, came back to the same
\* group and has received a payload since
C8_Witness ==
    \E d \in Conns : \E n \in 1..Len(published) :
        /\ n <= conn[d].bound_at /\ published[n].by = d /\ published[n].group = conn[d].group_name
        /\ conn[d].st = "open" /\ received[d] # <<>>

\* C9: a second message.read by a reader who is already in read_by leaves
\* the message as the first one left it, its read timestamp included.
C9_SecondReadChangesNothing ==
    [][\A c \in Conns : \A m \in 1..Len(messages) :
        (conn[c].pc = "idle" /\ conn'[c].pc = "read_pub" /\ conn'[c].msg = m /\ conn[c].user \in messages[m].read_by)
            => messages'[m] = messages[m]]_vars

\* C10: a read receipt is applied and published only for a message of the
\* reader's own conversation.
C10_ReadOnlyInOwnConversation ==
    /\ \A c \in Conns : conn[c].pc = "read_pub" => messages[conn[c].msg].chat = conn[c].chat_id
    /\ \A m \in 1..Len(messages) : \A u \in messages[m].read_by : IsMember(messages[m].chat, u)
    /\ \A n \in 1..Len(published) : published[n].p.type = "message.read" => messages[published[n].p.message_id].chat = published[n].group

StatusRank(status) == CASE status = "sent" -> 1 [] status = "delivered" -> 2 [] status = "read" -> 3

\* C11: over any sequence of send, mark_as_delivered and mark_as_read, a
\* message's status only moves forward along sent, delivered, read: no step
\* takes a read message back to delivered or sent, or a delivered one back
\* to sent.
C11_StatusOnlyForward ==
    [][\A m \in 1..Len(messages) : StatusRank(messages'[m].status) >= StatusRank(messages[m].status)]_vars

\* C12: the step in which a bound connection disconnects takes it out of
\* its conversation's group and writes its identity's presence once, to
\* offline with last_seen stamped; from then on nothing published to the
\* group reaches it.
C12_DisconnectUnbindsAndSetsOffline ==
    [][\A c \in Conns :
        /\ (conn[c].st = "open" /\ conn'[c].st # "open") =>
            /\ \A x \in 1..Len(chats) : <<x, c>> \notin groups'
            /\ users'[conn[c].user].is_online = FALSE /\ users'[conn[c].user].last_seen = now
            /\ \A u \in Users \ {conn[c].user} : users'[u] = users[u]
        /\ conn'[c].st \in {"closing", "free"} =>
            /\ \A x \in 1..Len(chats') : <<x, c>> \notin groups'
            /\ inbox'[c] = <<>>
            /\ Len(received'[c]) <= Len(received[c])]_vars

\* a connection has left, and its peer has received the user.offline that
\* was published to their group after it left
C12_Witness ==
    \E c, d \in Conns : \E i \in 1..Len(received[d]) :
        /\ c # d /\ conn[c].st = "free" /\ conn[d].st = "open" /\ inbox[c] = <<>>
        /\ received[d][i].type = "user.offline" /\ published[PubIndex(received[d][i])].by = c
        /\ users[received[d][i].user_id].is_online = FALSE

HasError(c) == \E i \in 1..Len(received[c]) : received[c][i].type = "error"

\* C13: the step in which a failed handler sends its connection an error
\* event leaves that connection open, bound to its group and ready for its
\* next event; a connection that has been sent an error event is open and
\* bound.
C13_ErrorKeepsConnectionOpen ==
    /\ [][\A c \in Conns :
            (Len(received'[c]) = Len(received[c]) + 1 /\ received'[c][Len(received'[c])].type = "error") =>
                /\ conn'[c] = conn[c] /\ groups' = groups
                /\ conn'[c].st = "open" /\ conn'[c].pc = "idle" /\ <<conn[c].group_name, c>> \in groups']_vars
    /\ [](\A c \in Conns : HasError(c) => (conn[c].st = "open" /\ <<conn[c].group_name, c>> \in groups))

\* a connection whose handler raised, and which was sent the error event of
\* receive_json, is in the middle of publishing the message of its next event
C13_Witness ==
    \E c \in Conns :
        /\ \E i \in 1..Len(received[c]) : received[c][i] = ErrorPayload("Internal error while processing your request.")
        /\ conn[c].pc = "send_pub" /\ conn[c].msg \in everLast

\* C14: an error event goes to the connection whose inbound event caused it
\* and to nobody else: no error payload is ever published to a group or
\* queued on a channel, and the step that sends one changes nothing of any
\* other connection and publishes nothing.
C14_ErrorOnlyToOriginator ==
    /\ [](\A n \in 1..Len(published) : published[n].p.type # "error")
    /\ [](\A d \in Conns : \A i \in 1..Len(inbox[d]) : inbox[d][i].type # "error")
    /\ [][\A c \in Conns :
            (Len(received'[c]) = Len(received[c]) + 1 /\ received'[c][Len(received'[c])].type = "error") =>
                /\ \A d \in Conns \ {c} : conn'[d] = conn[d] /\ inbox'[d] = inbox[d] /\ received'[d] = received[d]
                /\ published' = published /\ groups' = groups]_vars

\* one connection of a conversation was sent an error event; the other one,
\* open in the same group, has no error event behind it or ahead of it
C14_Witness ==
    \E c, d \in Conns :
        /\ c # d /\ HasError(c) /\ conn[d].st = "open" /\ conn[d].pc = "idle"
        /\ conn[c].group_name # 0 /\ conn[d].group_name = conn[c].group_name
        /\ \A i \in 1..Len(Log(d)) : Log(d)[i].type # "error"

\* C15: handling an inbound event whose type tag is not one of the five
\* known ones, or is missing, persists nothing, publishes nothing, sends
\* the sender nothing and leaves every connection as it was, bound to its
\* group (all inbound events of SpecOther are of that kind).
C15_UnknownTypeIgnored ==
    [][nEvents' # nEvents => (db' = db /\ layer' = layer /\ received' = received /\ conn' = conn)]_vars

\* a bound connection has handled such events and is still open in its group
C15_Witness ==
    \E c \in Conns :
        /\ nEvents = MaxOthers /\ conn[c].st = "open" /\ conn[c].pc = "idle" /\ <<conn[c].group_name, c>> \in groups
        /\ received[c] # <<>> /\ inbox[c] = <<>>

\* C16: a message.read whose message_id resolves to no message is dropped
\* in silence: the step that handles it publishes nothing, sends the caller
\* nothing and changes no message (all inbound events of SpecRead are
\* message.read; one that resolves moves its connection to read_pub).
C16_UnresolvedReadIsSilent ==
    [][(nEvents' # nEvents /\ \A c \in Conns : conn'[c].pc # "read_pub") =>
            (received' = received /\ published' = published /\ inbox' = inbox /\ messages' = messages)]_vars

BoundTogether(c, d) == c # d /\ conn[c].st = "open" /\ conn[d].st = "open" /\ conn[c].group_name # 0 /\ conn[d].group_name = conn[c].group_name

GotReceive(d, m) == \E i \in 1..Len(received[d]) : received[d][i].type = "message.receive" /\ received[d][i].message_id = m /\ m \in 1..Len(messages) /\ received[d][i].user_id = messages[m].sender /\ received[d][i].content = "hi" /\ received[d][i].status = "sent"

GotRead(c, m, d) == \E i \in 1..Len(received[c]) : received[c][i].type = "message.read" /\ received[c][i].message_id = m /\ received[c][i].user_id = conn[d].user

Pairs == {pair \in Conns \X Conns : pair[1] # pair[2]}

\* C17: with two connections bound to the same private conversation, a
\* message "hi" that one of them has sent and that is persisted is
\* eventually received by the other as a message.receive with that content,
\* the sender's id and status "sent"; and a read receipt that one of them
\* has recorded for a message is eventually received by the other as a
\* message.read with the reader's id.
C17_EndToEnd ==
    \A pair \in Pairs : \A m \in 1..MaxLive :
        /\ (BoundTogether(pair[1], pair[2]) /\ conn[pair[1]].pc = "send_ptr" /\ conn[pair[1]].msg = m) ~> GotReceive(pair[2], m)
        /\ (BoundTogether(pair[1], pair[2]) /\ conn[pair[2]].pc = "read_pub" /\ conn[pair[2]].msg = m) ~> GotRead(pair[1], m, pair[2])

\* the whole exchange has happened between two different users
C17_Witness ==
    \E c, d \in Conns : \E m \in 1..Len(messages) :
        /\ BoundTogether(c, d) /\ conn[c].user # conn[d].user /\ messages[m].sender = conn[c].user
        /\ GotReceive(d, m) /\ GotRead(c, m, d)

MembersOf(x) == {p \in participants : p.chat = x}

\* C18: create_group_chat with a non-empty name and a list of ids of
\* existing users creates one group conversation whose memberships are
\* exactly: the creator as admin, and every other listed identity once as
\* member; listing the creator adds no second membership for the creator
\* and leaves the creator admin.
C18_GroupCreation ==
    [][\A creator \in Callers, user_ids \in InviteLists, same_type \in BOOLEAN :
        (Range(user_ids) \subseteq Users /\ CreateGroupChat(creator, "g", user_ids, same_type)) =>
            /\ Len(chats') = Len(chats) + 1 /\ chats'[Len(chats')].chat_type = "group"
            /\ {p \in participants' : p.chat = Len(chats')} = {[chat |-> Len(chats'), user |-> creator, role |-> "admin"]} \cup {[chat |-> Len(chats'), user |-> u, role |-> "member"] : u \in Range(user_ids) \ {creator}}
            /\ {p \in participants' : p.chat # Len(chats')} = participants]_vars

\* a group with an admin and two members has been created in one call
C18_Witness ==
    \E x \in 1..Len(chats) :
        /\ nEvents = 1 /\ chats[x].chat_type = "group" /\ Cardinality(MembersOf(x)) = 3
        /\ Cardinality({p \in MembersOf(x) : p.role = "admin"}) = 1

\* C19: there is at most one Participant row per (conversation, identity).
C19_OneParticipantPerPair ==
    \A p, q \in participants : (p.chat = q.chat /\ p.user = q.user) => p = q

\* after the last call there are a group with its admin and a private
\* conversation with its members
C19_Witness ==
    \E x, y \in 1..Len(chats) :
        /\ nEvents = MaxCalls /\ chats[x].chat_type = "group" /\ chats[y].chat_type = "private"
        /\ \E p \in MembersOf(x) : p.role = "admin"
        /\ MembersOf(y) # {}

SinceSeen == now - users[shown.user].last_seen

\* C20: for a user with a last_seen, what formatted_last_seen gives depends
\* on d = now - last_seen by these breakpoints: d < 1 minute "online just
\* now"; 1 minute <= d < 1 hour "last seen N minutes ago" with
\* N = floor(d / 60 s); 1 hour <= d < 24 hours "last seen today at";
\* 24 hours <= d < 48 hours "last seen yesterday at"; d >= 48 hours
\* "last seen on ... at".
C20_LastSeenBreakpoints ==
    (shown.user \in Users /\ users[shown.user].last_seen # NoTime) =>
        /\ SinceSeen < 60 <=> shown.text.text = "online just now"
        /\ (60 <= SinceSeen /\ SinceSeen < 60 * 60) <=> shown.text.text = "last seen N minutes ago"
        /\ shown.text.text = "last seen N minutes ago" => shown.text.n = SinceSeen \div 60
        /\ (60 * 60 <= SinceSeen /\ SinceSeen < 24 * 60 * 60) <=> shown.text.text = "last seen today at"
        /\ (24 * 60 * 60 <= SinceSeen /\ SinceSeen < 48 * 60 * 60) <=> shown.text.text = "last seen yesterday at"
        /\ 48 * 60 * 60 <= SinceSeen <=> shown.text.text = "last seen on"

\* one second before the hour is up: 59 minutes ago
C20_Witness == shown.user = "u1" /\ SinceSeen = 3599 /\ shown.text = Text("last seen N minutes ago", 59, -1, -1)

\* C21: handling a user.status event writes the acting identity's
\* status_message and nothing else of any identity, before anything is
\* published; the user.status.update payload published for it carries the
\* acting identity's id and a timestamp, and never the status text.
C21_StatusUpdateOnlyText ==
    /\ [][\A c \in Conns : (conn[c].pc = "idle" /\ conn'[c].pc = "status_pub") =>
            /\ published' = published
            /\ \A u \in Users : users'[u].is_online = users[u].is_online /\ users'[u].last_seen = users[u].last_seen
            /\ \A u \in Users \ {conn[c].user} : users'[u] = users[u]]_vars
    /\ [][\A c \in Conns : (conn[c].pc = "status_pub" /\ conn'[c].pc = "idle") =>
            /\ users' = users
            /\ Len(published') = Len(published) + 1
            /\ published'[Len(published')].p.type = "user.status.update"
            /\ published'[Len(published')].p.user_id = conn[c].user
            /\ published'[Len(published')].p.timestamp = now
            /\ published'[Len(published')].p.content = ""]_vars

\* a user has set the text "busy" and the update has been published
C21_Witness ==
    \E n \in 1..Len(published) :
        /\ published[n].p.type = "user.status.update"
        /\ users[published[n].p.user_id].status_message = "busy"
        /\ conn[published[n].by].pc = "idle"

\* C22: a refresh request that presents a refresh token whose user has
\* logged out since the login that issued it is answered 401 and gets no
\* access token.
C22_NoRefreshAfterLogout ==
    \A i \in clients.issued :
        (clients.response.view = "refresh" /\ clients.response.refresh = i.token /\ i.logged_out) =>
            (clients.response.status = 401 /\ ~clients.response.access)

\* the token of a first login was refused after a logout and a second login
C22_Witness ==
    \E i \in clients.issued :
        /\ clients.response = Response("refresh", 401, i.token, FALSE) /\ i.logged_out
        /\ users[i.user].refresh_token # NoRefresh

\* C23: for any two different identities there is at most one private
\* conversation whose participants they are, whether it was made by
\* connecting, by the REST create_private_chat, or by both.
C23_OnePrivateChatPerPair ==
    \A a, b \in Users : a # b => Cardinality(PrivateChatsOf(a, b)) <= 1

\* C24: every private conversation has exactly two Participant rows, of
\* two different identities; a connection attempt of an authenticated user
\* to a chat with oneself or with a peer that does not exist is refused
\* with 4003.
C24_PrivateChatHasTwo ==
    /\ \A x \in 1..Len(chats) : chats[x].chat_type = "private" =>
            (Cardinality(MembersOf(x)) = 2 /\ Cardinality({p.user : p \in MembersOf(x)}) = 2)
    /\ \A c \in Conns :
            (conn[c].user # None /\ is_valid_uuid(conn[c].target) /\ conn[c].pc # "goc_create" /\ (conn[c].target = conn[c].user \/ conn[c].target \notin Users)) =>
                (conn[c].st = "refused" /\ conn[c].code = 4003)

MessagesOf(x) == {m \in 1..Len(messages) : messages[m].chat = x}

SendInFlight(x) == \E c \in Conns : conn[c].chat_id = x /\ conn[c].pc \in {"send_ptr", "send_pub"}

\* C25: whenever no send is in flight on a conversation that has messages,
\* its last_message is the message of that conversation created last.
C25_LastMessageIsNewest ==
    \A x \in 1..Len(chats) :
        (~SendInFlight(x) /\ MessagesOf(x) # {}) =>
            (chats[x].last_message \in MessagesOf(x) /\ \A m \in MessagesOf(x) : m <= chats[x].last_message)

LiveBinding(u) == \E c \in Conns : conn[c].user = u /\ conn[c].st = "open"

LifecycleInProgress(u) == \E c \in Conns : conn[c].user = u /\ (conn[c].st \in {"handshake", "refused", "closing"} \/ conn[c].pc \in {"goc_create", "set_online", "pub_online", "pub_offline"})

\* C28: an identity that has a live binding, and no connect or disconnect of
\* its own in progress, is flagged online.
C28_LiveBindingIsOnline == \A u \in Users : (LiveBinding(u) /\ ~LifecycleInProgress(u)) => users[u].is_online

\* C29: the disconnect processing of a refused attempt leaves every
\* identity's online flag and last_seen as they were and publishes nothing.
C29_RefusedChangesNoPresence ==
    [][\A c \in Conns : (conn[c].st = "refused" /\ conn'[c].st # "refused") => (users' = users /\ published' = published)]_vars

GroupsOf(c) == {x \in 1..Len(chats) : <<x, c>> \in groups}

\* C30: a connection is in at most one group; a connection in the group of
\* conversation X is authenticated as a participant of X; and every payload
\* in a connection's channel or delivered to its client was published to the
\* group of a conversation its identity participates in.
C30_GroupOnlyParticipants ==
    \A c \in Conns :
        /\ Cardinality(GroupsOf(c)) <= 1
        /\ \A x \in GroupsOf(c) : conn[c].user \in Users /\ IsMember(x, conn[c].user) /\ conn[c].group_name = x
        /\ \A i \in 1..Len(Log(c)) : Log(c)[i].type # "error" => IsMember(published[Log(c)[i].n].group, conn[c].user)

\* two connections of different identities are in the same group and one
\* has been delivered a payload the other published there
C30_Witness ==
    \E c, d \in Conns : \E i \in 1..Len(received[d]) :
        /\ c # d /\ conn[c].user # conn[d].user
        /\ GroupsOf(c) = GroupsOf(d) /\ GroupsOf(c) # {}
        /\ published[received[d][i].n].by = c

PublishedBy(c, event_type) == \E i \in 1..Len(published) : published[i].by = c /\ published[i].p.type = event_type

\* C27: whether or not its presence write succeeds, a connect goes on from
\* the write to publish user.online while open and bound, a disconnect
\* leaves the group and goes on to publish user.offline, a status update
\* goes on to publish, and no step sends an error event to any client.
C27_PresenceWriteNeverAborts ==
    [][\A c \in Conns :
        /\ (conn[c].pc = "set_online" /\ conn'[c] # conn[c]) =>
            (conn'[c].st = "open" /\ conn'[c].pc = "pub_online" /\ <<conn[c].chat_id, c>> \in groups')
        /\ (conn[c].pc = "pub_online" /\ conn'[c] # conn[c]) =>
            (conn'[c].st = "open" /\ <<conn[c].chat_id, c>> \in groups' /\ Len(published') = Len(published) + 1
                /\ published'[Len(published')].by = c /\ published'[Len(published')].p.type = "user.online")
        /\ (conn[c].st = "open" /\ conn'[c].st # "open") =>
            (GroupsOf(c)' = {} /\ conn'[c].pc = "pub_offline")
        /\ (conn[c].pc = "pub_offline" /\ conn'[c] # conn[c]) =>
            (Len(published') = Len(published) + 1 /\ published'[Len(published')].p.type = "user.offline")
        /\ (conn[c].pc = "idle" /\ conn'[c].pc = "status_pub") => conn'[c].st = "open"
        /\ (conn[c].pc = "status_pub" /\ conn'[c] # conn[c]) =>
            (conn'[c].st = "open" /\ Len(published') = Len(published) + 1 /\ published'[Len(published')].p.type = "user.status.update")
        /\ \A i \in 1..Len(received'[c]) : received'[c][i].type # "error"]_vars

\* every presence write of u1 has failed (last_seen was never stamped, the
\* status text is the default); its first connection was accepted, has
\* published user.online and a status update, has disconnected and has
\* published user.offline; its second connection is open and bound after
\* its own failed write
C27_Witness ==
    \E c, d \in Conns :
        /\ c # d /\ conn[c].st = "free" /\ conn[d].st = "open" /\ conn[d].pc = "idle" /\ conn[d].user = "u1"
        /\ users["u1"].last_seen = NoTime /\ users["u1"].status_message = DefaultStatusMessage
        /\ PublishedBy(c, "user.online") /\ PublishedBy(c, "user.status.update") /\ PublishedBy(c, "user.offline")
        /\ PublishedBy(d, "user.online") /\ GroupsOf(c) = {} /\ GroupsOf(d) # {}
        /\ \A i \in 1..Len(published) : published[i].p.user_id = "u1"

InFlight(c) == conn[c].st = "gone" /\ conn[c].pc \in {"send_ptr", "send_pub", "read_pub"}

LastPublished == published[Len(published)]

\* C26: a connection whose client has closed while its handler is in flight
\* stays in its group until the handler has returned; the handler takes its
\* remaining steps and returns; what it publishes is put on the channel of
\* every other connection in the group; and the client of the closed
\* connection is sent nothing any more.
C26_CloseDoesNotCancel ==
    /\ [][\A c \in Conns :
            /\ (InFlight(c) /\ conn'[c] # conn[c]) =>
                /\ conn'[c].st = "gone" /\ GroupsOf(c)' = GroupsOf(c)
                /\ conn'[c].pc = (IF conn[c].pc = "send_ptr" THEN "send_pub" ELSE "idle")
                /\ conn[c].pc \in {"send_pub", "read_pub"} =>
                    /\ Len(published') = Len(published) + 1
                    /\ LastPublished'.by = c /\ LastPublished'.p.message_id = conn[c].msg
                    /\ LastPublished'.p.type = (IF conn[c].pc = "send_pub" THEN "message.receive" ELSE "message.read")
                    /\ \A d \in Conns \ {c} : <<conn[c].group_name, d>> \in groups => inbox'[d] = Append(inbox[d], LastPublished'.p)
            /\ conn[c].st \in {"gone", "closing"} => Len(received'[c]) <= Len(received[c])]_vars
    /\ \A c \in Conns : InFlight(c) ~> (conn[c].st = "gone" /\ conn[c].pc = "idle")

\* the handler of a closed connection has returned before the disconnect is
\* processed; the peer, still bound, has received the message.receive it
\* published, and the closed connection's client has not
C26_Witness ==
    \E c, d \in Conns :
        /\ c # d /\ conn[c].st = "gone" /\ conn[c].pc = "idle" /\ conn[d].st = "open" /\ GroupsOf(d) = GroupsOf(c)
        /\ LastPublished.by = c /\ LastPublished.p.type = "message.receive"
        /\ \E i \in 1..Len(received[d]) : received[d][i] = LastPublished.p
        /\ \A i \in 1..Len(received[c]) : received[c][i] # LastPublished.p

====
